---- MODULE Spec2Model ----
(***************************************************************************)
(* Model of tfcoreml/_tf_coreml_converter.py: the staged pipeline of       *)
(* _convert_pb_to_mlmodel (graph load, consumer graph, placeholder pass,   *)
(* liveness/constant probe, shape dictionary, output features, unsupported *)
(* op check, Context, lowering, boundary-name canonicalization).           *)
(*                                                                         *)
(* Names are sequences of one-character strings, so that the rewriting of  *)
(* ':' and '/' into '__' is computed and not assumed.  Shapes are          *)
(* sequences of integers; NoneDim stands for an undetermined dimension and *)
(* UnknownRank for a TensorShape of unknown rank.                          *)
(***************************************************************************)
EXTENDS Integers, Sequences, FiniteSets, TLC

\* ------------------------------------------------------------------ bounds
MaxOps == 3
MaxRank == 2

\* ------------------------------------------------------------ basic values
NoneDim == -1
UnknownRank == << -2 >>
DimValues == {1, 10}

SeqSet(s) == {s[i] : i \in DOMAIN s}
EmptyMap == [x \in {} |-> <<>>]
Put(f, k, v) == (k :> v) @@ f

ConcreteShapes == UNION {[1..r -> DimValues] : r \in 0..MaxRank}
DeclaredShapes == UNION {[1..r -> DimValues \cup {NoneDim}] : r \in 0..MaxRank}
                    \cup {UnknownRank}

\* TensorShape.is_fully_defined()
is_fully_defined(shape) ==
  /\ shape # UnknownRank
  /\ \A i \in DOMAIN shape : shape[i] # NoneDim

\* A fed or computed value of shape r is accepted for a tensor declared as d.
Compatible(d, r) ==
  \/ d = UnknownRank
  \/ /\ Len(d) = Len(r)
     /\ \A i \in DOMAIN d : d[i] = NoneDim \/ d[i] = r[i]

\* ------------------------------------------------------------------- names
\* Name of the operation at position i of the graph.
OpName(i) ==
  CASE i = 1 -> <<"x">>
    [] i = 2 -> <<"a", "/", "b">>
    [] i = 3 -> <<"a", "_", "_", "b">>
    [] OTHER -> <<"c">> \o [j \in 1..(i - 4) |-> "/"]

\* Name of output slot k (0 or 1) of operation n: "n:k".
TensorName(n, k) == n \o <<":", IF k = 0 THEN "0" ELSE "1">>

\* A requested output name that no tensor of the graph carries.
MissingName == <<"z", ":", "0">>

\* ------------------------------------------------------------------ graphs
SourceTypes == {"Placeholder", "Const"}

\* _ops_to_layers._OP_REGISTRY: the operation types that have a translator.
OP_REGISTRY == {"Placeholder", "Const", "Identity", "Dequantize", "Add"}

\* The operation of the given type at position i; it reads the first output
\* of the operation before it ("Bar" reads it in both of its input slots,
\* "Add" reads the first output of each of the two operations before it)
\* and "Foo" has two outputs.
MkOp(i, type, shape) ==
  [name    |-> OpName(i),
   type    |-> type,
   inputs  |-> IF type \in SourceTypes \/ i = 1 THEN <<>>
               ELSE IF type = "Bar"
                    THEN <<TensorName(OpName(i - 1), 0), TensorName(OpName(i - 1), 0)>>
               ELSE IF type = "Add"
                    THEN <<TensorName(OpName(IF i > 2 THEN i - 2 ELSE i - 1), 0),
                           TensorName(OpName(i - 1), 0)>>
                    ELSE <<TensorName(OpName(i - 1), 0)>>,
   outputs |-> IF type = "Foo"
               THEN <<[name |-> TensorName(OpName(i), 0), shape |-> shape],
                      [name |-> TensorName(OpName(i), 1), shape |-> shape]>>
               ELSE <<[name |-> TensorName(OpName(i), 0), shape |-> shape]>>]

DefaultShape == <<1, 10>>

\* The graphs of at most MaxOps operations with types drawn from the given
\* set, the first one a source; every declared shape is DefaultShape.
GraphsOver(types) ==
  UNION {
    {[i \in 1..n |-> MkOp(i, t[i], DefaultShape)] :
        t \in {u \in [1..n -> types] : u[1] \in SourceTypes}}
    : n \in 1..MaxOps}

\* Graphs that vary operations with and without a registry entry.
TypeGraphs == GraphsOver({"Placeholder", "Const", "Identity", "Foo", "Bar"})

\* Graphs that vary the constant-producing operations and DecodeJpeg.
ConstGraphs ==
  GraphsOver({"Placeholder", "Const", "Identity", "Dequantize", "DecodeJpeg"})

\* Graphs in which a tensor is read by more than one operation.
FanOutGraphs == GraphsOver({"Placeholder", "Identity", "Add"})

\* Graphs that vary the declared shapes: a placeholder read by an Identity,
\* optionally followed by a Const.
ShapeGraphs ==
  {<<MkOp(1, "Placeholder", s1), MkOp(2, "Identity", s2)>> \o tail :
      s1 \in DeclaredShapes,
      s2 \in {DefaultShape, <<NoneDim, 10>>, UnknownRank},
      tail \in {<<>>, <<MkOp(3, "Const", DefaultShape)>>}}

OutputNamesOf(ops) ==
  UNION {{ops[i].outputs[k].name : k \in DOMAIN ops[i].outputs} : i \in DOMAIN ops}

PlaceholderNames(ops) ==
  {ops[i].outputs[1].name : i \in {j \in DOMAIN ops : ops[j].type = "Placeholder"}}


\* ------------------------------------------------------------------ errors
NoError == [kind |-> "none", what |-> "none", arg |-> <<>>]
Raise(kind, what, arg) == [kind |-> kind, what |-> what, arg |-> arg]

\* --------------------------------------------------- _check_unsupported_ops
RECURSIVE ScanUnsupported(_, _, _, _, _, _)
ScanUnsupported(ops, output_feature_names, skip_ops, i, unsupported_op_types, outputs_encountered) ==
  IF i > Len(ops) THEN unsupported_op_types
  ELSE IF \A k \in DOMAIN output_feature_names :
             output_feature_names[k] \in outputs_encountered
  THEN unsupported_op_types
  ELSE LET op == ops[i]
           add == /\ op.type \notin OP_REGISTRY
                  /\ op.type \notin SeqSet(unsupported_op_types)
                  /\ op.name \notin SeqSet(skip_ops)
       IN ScanUnsupported(ops, output_feature_names, skip_ops, i + 1,
            IF add THEN Append(unsupported_op_types, op.type)
                   ELSE unsupported_op_types,
            outputs_encountered
              \cup {op.outputs[k].name : k \in DOMAIN op.outputs})

\* A check that stops at the first unsupported operation.
FailFastCheck(ops, output_feature_names, skip_ops) ==
  LET all == ScanUnsupported(ops, output_feature_names, skip_ops, 1, <<>>, {})
  IN IF all = <<>> THEN <<>> ELSE <<all[1]>>

\* The list of types the check reports; the check raises iff it is not empty.
_check_unsupported_ops(ops, output_feature_names, skip_ops) ==
  ScanUnsupported(ops, output_feature_names, skip_ops, 1, <<>>, {})

\* ------------------------------------------------------------ consumer graph
\* A loop that lists an operation once, however many of its inputs read
\* the tensor.
RECURSIVE AppendOnce(_, _, _)
AppendOnce(blob_graph, op, j) ==
  IF j > Len(op.inputs) THEN blob_graph
  ELSE AppendOnce(
         IF /\ op.inputs[j] \in DOMAIN blob_graph
            /\ op.name \notin SeqSet(blob_graph[op.inputs[j]])
         THEN Put(blob_graph, op.inputs[j], Append(blob_graph[op.inputs[j]], op.name))
         ELSE blob_graph,
         op, j + 1)

\* Lines 241-243
RECURSIVE AppendConsumers(_, _, _)
AppendConsumers(blob_graph, op, j) ==
  IF j > Len(op.inputs) THEN blob_graph
  ELSE AppendConsumers(
         IF op.inputs[j] \in DOMAIN blob_graph
         THEN Put(blob_graph, op.inputs[j], Append(blob_graph[op.inputs[j]], op.name))
         ELSE blob_graph,
         op, j + 1)

RECURSIVE RegisterOutputs(_, _, _)
RegisterOutputs(blob_graph, op, k) ==
  IF k > Len(op.outputs) THEN blob_graph
  ELSE RegisterOutputs(
         IF op.outputs[k].name \notin DOMAIN blob_graph
         THEN Put(blob_graph, op.outputs[k].name, <<>>)
         ELSE blob_graph,
         op, k + 1)

RECURSIVE BuildBlobGraphFrom(_, _, _)
BuildBlobGraphFrom(ops, i, blob_graph) ==
  IF i > Len(ops) THEN blob_graph
  ELSE BuildBlobGraphFrom(ops, i + 1,
         RegisterOutputs(AppendConsumers(blob_graph, ops[i], 1), ops[i], 1))

\* ----------------------------------------------------------- placeholder pass
\* A resolution that looks at the override only when the declared shape is
\* not fully defined.
DeclaredFirst(input_name, shape, name_shape_dict) ==
  IF is_fully_defined(shape)
  THEN [error |-> NoError, shape |-> shape]
  ELSE IF input_name \in DOMAIN name_shape_dict
  THEN [error |-> NoError, shape |-> name_shape_dict[input_name]]
  ELSE IF shape = UnknownRank
  THEN [error |-> Raise("ValueError", "shape_unknown_rank", input_name), shape |-> <<>>]
  ELSE IF shape[1] = NoneDim /\ \A i \in 2..Len(shape) : shape[i] # NoneDim
  THEN [error |-> NoError, shape |-> <<1>> \o SubSeq(shape, 2, Len(shape))]
  ELSE [error |-> Raise("ValueError", "shape_incomplete", input_name), shape |-> <<>>]

\* A resolution that rejects every shape that is not fully defined.
NoBatchDefault(input_name, shape, name_shape_dict) ==
  IF input_name \in DOMAIN name_shape_dict
  THEN [error |-> NoError, shape |-> name_shape_dict[input_name]]
  ELSE IF is_fully_defined(shape)
  THEN [error |-> NoError, shape |-> shape]
  ELSE IF shape = UnknownRank
  THEN [error |-> Raise("ValueError", "shape_unknown_rank", input_name), shape |-> <<>>]
  ELSE [error |-> Raise("ValueError", "shape_incomplete", input_name), shape |-> <<>>]

\* The shape chosen for one placeholder, or the error raised for it.
ResolvePlaceholderShape(input_name, shape, name_shape_dict) ==
  IF input_name \in DOMAIN name_shape_dict
  THEN [error |-> NoError, shape |-> name_shape_dict[input_name]]
  ELSE IF is_fully_defined(shape)
  THEN [error |-> NoError, shape |-> shape]
  ELSE IF shape = UnknownRank
  THEN [error |-> Raise("ValueError", "shape_unknown_rank", input_name), shape |-> <<>>]
  ELSE IF shape[1] = NoneDim /\ \A i \in 2..Len(shape) : shape[i] # NoneDim
  THEN [error |-> NoError, shape |-> <<1>> \o SubSeq(shape, 2, Len(shape))]
  ELSE [error |-> Raise("ValueError", "shape_incomplete", input_name), shape |-> <<>>]

RECURSIVE PlaceholderLoop(_, _, _, _, _, _)
PlaceholderLoop(ops, output_feature_names, name_shape_dict, i, shape_dict, feed) ==
  IF i > Len(ops)
  THEN [error |-> NoError, SHAPE_DICT |-> shape_dict, input_feed_dict |-> feed]
  ELSE IF ops[i].type # "Placeholder"
  THEN PlaceholderLoop(ops, output_feature_names, name_shape_dict, i + 1,
                       shape_dict, feed)
  ELSE IF \E k \in DOMAIN ops[i].outputs :
             ops[i].outputs[k].name \in SeqSet(output_feature_names)
  THEN [error |-> Raise("AssertionError", "placeholder_output", ops[i].outputs[1].name),
        SHAPE_DICT |-> shape_dict, input_feed_dict |-> feed]
  ELSE LET input_name == ops[i].outputs[1].name
           r == ResolvePlaceholderShape(input_name, ops[i].outputs[1].shape,
                                        name_shape_dict)
       IN IF r.error.kind # "none"
          THEN [error |-> r.error, SHAPE_DICT |-> shape_dict, input_feed_dict |-> feed]
          ELSE PlaceholderLoop(ops, output_feature_names, name_shape_dict, i + 1,
                 Put(shape_dict, input_name, r.shape),
                 Append(feed, [name |-> input_name, shape |-> r.shape]))

\* ---------------------------------------------------------------- session
DeclaredShapeOf(ops, name) ==
  LET i == CHOOSE j \in DOMAIN ops :
             \E k \in DOMAIN ops[j].outputs : ops[j].outputs[k].name = name
      k == CHOOSE l \in DOMAIN ops[i].outputs : ops[i].outputs[l].name = name
  IN ops[i].outputs[k].shape

\* Session.run rejects a fed value whose shape does not fit the placeholder.
FeedAccepted(ops, feed) ==
  \A j \in DOMAIN feed : Compatible(DeclaredShapeOf(ops, feed[j].name), feed[j].shape)

FeedShape(feed, name) ==
  LET j == CHOOSE l \in DOMAIN feed : feed[l].name = name IN feed[j].shape

\* The shapes that a run of the graph can produce for the given tensors: a
\* fed tensor has the shape of the fed value, a tensor declared in full has
\* its declared shape, any other tensor has a shape that fits its declaration.
Realizations(ops, feed, names) ==
  LET fed == {n \in names : \E j \in DOMAIN feed : feed[j].name = n}
      free == {n \in names \ fed : ~is_fully_defined(DeclaredShapeOf(ops, n))}
  IN {[n \in names |->
         IF n \in fed THEN FeedShape(feed, n)
         ELSE IF n \in free THEN g[n]
         ELSE DeclaredShapeOf(ops, n)] :
       g \in {h \in [free -> ConcreteShapes] :
                \A n \in free : Compatible(DeclaredShapeOf(ops, n), h[n])}}

\* ------------------------------------------------- liveness / constant probe
\* Operations from which a requested output can be reached, found by one
\* backward pass over the topologically ordered list.
RECURSIVE LiveFrom(_, _, _, _)
LiveFrom(ops, i, needed, live) ==
  IF i = 0 THEN live
  ELSE IF \E k \in DOMAIN ops[i].outputs : ops[i].outputs[k].name \in needed
  THEN LiveFrom(ops, i - 1, needed \cup SeqSet(ops[i].inputs), live \cup {ops[i].name})
  ELSE LiveFrom(ops, i - 1, needed, live)

OpNames(ops) == [i \in DOMAIN ops |-> ops[i].name]
NamesIn(ops, S) == SelectSeq(OpNames(ops), LAMBDA n : n \in S)

UnusedOps(ops, output_feature_names) ==
  LET live == LiveFrom(ops, Len(ops), SeqSet(output_feature_names), {})
  IN NamesIn(ops, {ops[i].name : i \in DOMAIN ops} \ live)

\* Tensors whose value differs between the two input assignments: the outputs
\* of a placeholder fed random values (a scalar placeholder is fed 1 in both
\* assignments) and of every operation that reads such a tensor.
RECURSIVE VaryingFrom(_, _, _, _)
VaryingFrom(ops, feed, i, varying) ==
  IF i > Len(ops) THEN varying
  ELSE LET op == ops[i]
           outs == {op.outputs[k].name : k \in DOMAIN op.outputs}
           v == IF op.type = "Placeholder"
                THEN \E j \in DOMAIN feed :
                        feed[j].name = op.outputs[1].name /\ feed[j].shape # <<>>
                ELSE \E j \in DOMAIN op.inputs : op.inputs[j] \in varying
       IN VaryingFrom(ops, feed, i + 1, IF v THEN varying \cup outs ELSE varying)

VaryingOps(ops, feed) ==
  LET varying == VaryingFrom(ops, feed, 1, {})
  IN {ops[i].name : i \in {j \in DOMAIN ops :
                             \E k \in DOMAIN ops[j].outputs :
                                ops[j].outputs[k].name \in varying}}

\* Producer(ops, name): the name of the operation that has the tensor as output.
Producer(ops, name) ==
  ops[CHOOSE i \in DOMAIN ops :
        \E k \in DOMAIN ops[i].outputs : ops[i].outputs[k].name = name].name

\* The results _find_unused_ops can return: operations that are not literal
\* constants and whose outputs cannot differ are always reported as
\* effectively constant; an operation that reads varying data is reported
\* when its outputs happen to agree on the two assignments drawn, and then so
\* is every operation all of whose inputs agree.
_find_unused_ops(ops, output_feature_names, feed) ==
  LET literal == {ops[i].name : i \in {j \in DOMAIN ops : ops[j].type = "Const"}}
      sure == {ops[i].name : i \in DOMAIN ops} \ (literal \cup VaryingOps(ops, feed))
      maybe == VaryingOps(ops, feed)
                 \ {ops[i].name : i \in {j \in DOMAIN ops : ops[j].type = "Placeholder"}}
      closed(S) == \A i \in DOMAIN ops :
                     (/\ ops[i].name \in maybe
                      /\ \A j \in DOMAIN ops[i].inputs :
                            Producer(ops, ops[i].inputs[j]) \in literal \cup sure \cup S)
                     => ops[i].name \in S
  IN {[unused_ops |-> UnusedOps(ops, output_feature_names),
       effectively_constant_ops |-> NamesIn(ops, sure \cup S)] :
        S \in {T \in SUBSET maybe : closed(T)}}

\* A probe whose failure ends the conversion.
UnguardedProbe(raised, result) ==
  [unused_ops |-> IF raised THEN <<>> ELSE result.unused_ops,
   effectively_constant_ops |-> IF raised THEN <<>> ELSE result.effectively_constant_ops,
   error |-> IF raised THEN Raise("RuntimeError", "probe", <<>>) ELSE NoError]

\* try: unused_ops, effectively_constant_ops = _find_unused_ops(...)
\* except: pass
GuardedProbe(raised, result) ==
  IF raised
  THEN [unused_ops |-> <<>>, effectively_constant_ops |-> <<>>, error |-> NoError]
  ELSE [unused_ops |-> result.unused_ops,
        effectively_constant_ops |-> result.effectively_constant_ops,
        error |-> NoError]

\* --------------------------------------------------------- static shape pass
\* A pass that lists the incomplete shapes and records no declared shape.
NoStaticRecord(op, k, shape_dict, wanted) ==
  [SHAPE_DICT |-> shape_dict,
   shapes_wanted |-> wanted \o SelectSeq([j \in DOMAIN op.outputs |-> op.outputs[j].name],
                        LAMBDA n : \E j \in DOMAIN op.outputs :
                                     /\ j >= k
                                     /\ op.outputs[j].name = n
                                     /\ ~is_fully_defined(op.outputs[j].shape))]

RECURSIVE StaticOutputs(_, _, _, _)
StaticOutputs(op, k, shape_dict, wanted) ==
  IF k > Len(op.outputs) THEN [SHAPE_DICT |-> shape_dict, shapes_wanted |-> wanted]
  ELSE IF ~is_fully_defined(op.outputs[k].shape)
  THEN StaticOutputs(op, k + 1, shape_dict, Append(wanted, op.outputs[k].name))
  ELSE StaticOutputs(op, k + 1,
                     Put(shape_dict, op.outputs[k].name, op.outputs[k].shape), wanted)

\* A test that takes only literal constants.
OnlyLiteralConst(op, effectively_constant) == op.type = "Const"

\* is_const of lines 309-314
IsConstOp(op, effectively_constant) ==
  \/ op.type = "Const"
  \/ op.type = "Dequantize" /\ op.name \in SeqSet(effectively_constant)

RECURSIVE StaticLoop(_, _, _, _, _, _)
StaticLoop(ops, effectively_constant, i, shape_dict, wanted, consts) ==
  IF i > Len(ops)
  THEN [SHAPE_DICT |-> shape_dict, shapes_wanted |-> wanted, consts_wanted |-> consts]
  ELSE LET r == StaticOutputs(ops[i], 1, shape_dict, wanted)
       IN StaticLoop(ops, effectively_constant, i + 1, r.SHAPE_DICT, r.shapes_wanted,
            IF IsConstOp(ops[i], effectively_constant)
            THEN Append(consts, ops[i].outputs[1].name)
            ELSE consts)

\* ------------------------------------------------------- execution results
\* A recording that pairs the names with the results in the opposite order.
RECURSIVE RecordReversed(_, _, _, _, _, _)
RecordReversed(tensor_names, const_tensor_names, evaluated, i, shape_dict, consts) ==
  IF i > Len(tensor_names) THEN [SHAPE_DICT |-> shape_dict, CONSTS |-> consts]
  ELSE LET n == tensor_names[i]
           v == evaluated[Len(tensor_names) + 1 - i]
           sd == IF n \notin DOMAIN shape_dict THEN Put(shape_dict, n, v) ELSE shape_dict
           cs == IF n \in SeqSet(const_tensor_names) /\ n \notin DOMAIN consts
                 THEN Put(consts, n, v) ELSE consts
       IN RecordReversed(tensor_names, const_tensor_names, evaluated, i + 1, sd, cs)

RECURSIVE RecordEvaluated(_, _, _, _, _, _)
RecordEvaluated(tensor_names, const_tensor_names, evaluated, i, shape_dict, consts) ==
  IF i > Len(tensor_names) THEN [SHAPE_DICT |-> shape_dict, CONSTS |-> consts]
  ELSE LET n == tensor_names[i]
           sd == IF n \notin DOMAIN shape_dict
                 THEN Put(shape_dict, n, evaluated[i]) ELSE shape_dict
           cs == IF n \in SeqSet(const_tensor_names) /\ n \notin DOMAIN consts
                 THEN Put(consts, n, evaluated[i]) ELSE consts
       IN RecordEvaluated(tensor_names, const_tensor_names, evaluated, i + 1,
                          sd, cs)


\* ----------------------------------------------------------- output features
\* The value None returned for a shape Core ML is not told about.
NoShape == << -3 >>

_infer_coreml_output_shape(tf_shape) ==
  CASE Len(tf_shape) = 1 -> [error |-> NoError, shape |-> <<tf_shape[1], 1, 1>>]
    [] Len(tf_shape) = 2 -> [error |-> NoError,
                             shape |-> IF tf_shape[1] = 1 THEN <<tf_shape[2]>> ELSE NoShape]
    [] Len(tf_shape) = 3 -> [error |-> NoError, shape |-> NoShape]
    [] Len(tf_shape) = 4 -> [error |-> NoError,
                             shape |-> <<tf_shape[4], tf_shape[2], tf_shape[3]>>]
    [] Len(tf_shape) = 0 -> [error |-> NoError, shape |-> <<1>>]
    [] OTHER -> [error |-> Raise("ValueError", "output_rank", <<>>), shape |-> <<>>]

_infer_coreml_input_shape(tf_shape) ==
  CASE Len(tf_shape) = 0 -> [error |-> NoError, shape |-> <<1, 1, 1>>]
    [] Len(tf_shape) = 1 -> [error |-> NoError, shape |-> <<1, 1, tf_shape[1]>>]
    [] Len(tf_shape) = 2 -> [error |-> NoError, shape |-> <<tf_shape[2]>>]
    [] Len(tf_shape) = 3 -> [error |-> NoError, shape |-> <<tf_shape[3], 1, tf_shape[2]>>]
    [] Len(tf_shape) = 4 -> [error |-> NoError,
                             shape |-> <<tf_shape[4], tf_shape[2], tf_shape[3]>>]
    [] OTHER -> [error |-> Raise("ValueError", "input_rank", <<>>), shape |-> <<>>]

RECURSIVE OutputsOfOp(_, _, _, _, _)
OutputsOfOp(op, k, output_feature_names, shape_dict, features) ==
  IF k > Len(op.outputs) THEN [error |-> NoError, output_features |-> features]
  ELSE IF op.outputs[k].name \notin SeqSet(output_feature_names)
  THEN OutputsOfOp(op, k + 1, output_feature_names, shape_dict, features)
  ELSE LET r == IF op.outputs[k].name \in DOMAIN shape_dict
                THEN _infer_coreml_output_shape(shape_dict[op.outputs[k].name])
                ELSE [error |-> Raise("KeyError", "output_shape", op.outputs[k].name),
                      shape |-> <<>>]
       IN IF r.error.kind # "none"
          THEN [error |-> r.error, output_features |-> features]
          ELSE OutputsOfOp(op, k + 1, output_feature_names, shape_dict,
                 Append(features, [name |-> op.outputs[k].name, shape |-> r.shape]))

RECURSIVE OutputLoop(_, _, _, _, _)
OutputLoop(ops, i, output_feature_names, shape_dict, features) ==
  IF i > Len(ops) THEN [error |-> NoError, output_features |-> features]
  ELSE LET r == OutputsOfOp(ops[i], 1, output_feature_names, shape_dict, features)
       IN IF r.error.kind # "none" THEN r
          ELSE OutputLoop(ops, i + 1, output_feature_names, shape_dict, r.output_features)

\* A check that reports the last requested name that is not the name of a
\* collected output feature.
LastMissingError(output_features, output_feature_names) ==
  LET all_out_names_in_graph == {output_features[i].name : i \in DOMAIN output_features}
      missing == {k \in DOMAIN output_feature_names :
                    output_feature_names[k] \notin all_out_names_in_graph}
  IN IF Len(output_features) # Len(output_feature_names) /\ missing # {}
     THEN Raise("ValueError", "missing_output",
                output_feature_names[CHOOSE k \in missing : \A l \in missing : k >= l])
     ELSE NoError

\* Lines 352-356: the error for the first requested name that is not the
\* name of a collected output feature.
MissingOutputError(output_features, output_feature_names) ==
  LET all_out_names_in_graph == {output_features[i].name : i \in DOMAIN output_features}
      missing == {k \in DOMAIN output_feature_names :
                    output_feature_names[k] \notin all_out_names_in_graph}
  IN IF Len(output_features) # Len(output_feature_names) /\ missing # {}
     THEN Raise("ValueError", "missing_output",
                output_feature_names[CHOOSE k \in missing : \A l \in missing : k <= l])
     ELSE NoError

\* ------------------------------------------------------------ input features
\* Tensor.consumers(): the operations that read the tensor.
Consumers(ops, name) ==
  SelectSeq(ops, LAMBDA op : name \in SeqSet(op.inputs))

RECURSIVE InputLoop(_, _, _, _, _)
InputLoop(ops, feed, j, shape_dict, features) ==
  IF j > Len(feed) THEN [error |-> NoError, input_features |-> features]
  ELSE LET input_name == feed[j].name
           consumers == Consumers(ops, input_name)
       IN IF input_name \notin DOMAIN shape_dict
          THEN [error |-> Raise("KeyError", "input_shape", input_name),
                input_features |-> features]
          ELSE IF consumers = <<>>
          THEN [error |-> Raise("IndexError", "no_consumer", input_name),
                input_features |-> features]
          ELSE LET r == IF consumers[1].type = "OneHot"
                        THEN [error |-> NoError, shape |-> <<1>>]
                        ELSE _infer_coreml_input_shape(shape_dict[input_name])
               IN IF r.error.kind # "none"
                  THEN [error |-> r.error, input_features |-> features]
                  ELSE InputLoop(ops, feed, j + 1, shape_dict,
                         Append(features, [name |-> input_name, shape |-> r.shape]))

\* ------------------------------------------------------------------ lowering
OutputNames(op) == [k \in DOMAIN op.outputs |-> op.outputs[k].name]

\* convert_ops_to_layers: walk the ordered operation list; an unused
\* operation is pruned, a constant or effectively constant one is folded, a
\* placeholder is a graph input, an operation with a registry entry becomes a
\* layer, an operation without one becomes a custom layer if custom layers
\* are permitted and fails the conversion otherwise.
RECURSIVE convert_ops_to_layers(_, _, _, _)
convert_ops_to_layers(ctx, i, layers, custom) ==
  IF i > Len(ctx.all_ops)
  THEN [error |-> NoError, layers |-> layers, ops_converted_to_custom_layers |-> custom]
  ELSE LET op == ctx.all_ops[i]
           layer(kind) == [name |-> op.name, kind |-> kind, input |-> op.inputs,
                           output |-> OutputNames(op)]
       IN IF \/ op.name \in SeqSet(ctx.unused_ops)
             \/ op.name \in SeqSet(ctx.effectively_constant_ops)
             \/ op.type \in {"Const", "Placeholder"}
          THEN convert_ops_to_layers(ctx, i + 1, layers, custom)
          ELSE IF op.type \in OP_REGISTRY
          THEN convert_ops_to_layers(ctx, i + 1, Append(layers, layer("layer")), custom)
          ELSE IF ctx.add_custom_layers
          THEN convert_ops_to_layers(ctx, i + 1, Append(layers, layer("custom")),
                                     Append(custom, op.name))
          ELSE [error |-> Raise("NotImplementedError", "lowering", <<op.type>>),
                layers |-> layers, ops_converted_to_custom_layers |-> custom]

\* ------------------------------------------------- boundary-name rewriting
\* str.replace(ch, '__') for a one-character ch
RECURSIVE Replace(_, _)
Replace(name, ch) ==
  IF name = <<>> THEN <<>>
  ELSE (IF Head(name) = ch THEN <<"_", "_">> ELSE <<Head(name)>>)
         \o Replace(Tail(name), ch)

\* name.replace(':', '__').replace('/', '__')
Canonical(name) == Replace(Replace(name, ":"), "/")

FeatureNames(features) == [i \in DOMAIN features |-> features[i].name]

\* A rewriting of layer references that forgets the '/' separator.
RenameColonOnly(refs, interface_blob_names) ==
  [j \in DOMAIN refs |->
     IF refs[j] \in SeqSet(interface_blob_names) THEN Replace(refs[j], ":") ELSE refs[j]]

\* Lines 450-458: a layer reference is rewritten when it is an interface name.
RenameRefs(refs, interface_blob_names) ==
  [j \in DOMAIN refs |->
     IF refs[j] \in SeqSet(interface_blob_names) THEN Canonical(refs[j]) ELSE refs[j]]

RenameLayers(nn_layers, interface_blob_names) ==
  [i \in DOMAIN nn_layers |->
     [nn_layers[i] EXCEPT !.input = RenameRefs(@, interface_blob_names),
                          !.output = RenameRefs(@, interface_blob_names)]]

\* Lines 441-447: the names of the input and output descriptions.
RenameDescription(names) == [i \in DOMAIN names |-> Canonical(names[i])]


\* ------------------------------------------------------------------ convert
\* SupportedVersion.supported_ios_version
supported_ios_version == <<"11.2", "12", "13">>

\* list.index(value)
IndexOf(list, value) == CHOOSE i \in DOMAIN list : list[i] = value

ios_support_check(target) == target \in SeqSet(supported_ios_version)

\* SupportedVersion.ND_ARRARY_SUPPORT
ND_ARRARY_SUPPORT == IndexOf(supported_ios_version, "13")

\* Called by convert for a supported target only.
is_nd_array_supported(target) ==
  ND_ARRARY_SUPPORT <= IndexOf(supported_ios_version, target)

\* The names of the arguments of convert whose default is None.
NoneDefaults == {"input_name_shape_dict", "output_feature_names"}

\* ':' in name
HasColon(name) == ":" \in SeqSet(name)

\* check_input_output_names: the error it raises, if any.  is_none holds
\* the arguments that are None; iterating over None raises a TypeError.
check_input_output_names(name_shape_dict, feature_names, is_none) ==
  IF "input_name_shape_dict" \in is_none
  THEN Raise("TypeError", "not_iterable", <<"input_name_shape_dict">>)
  ELSE IF "output_feature_names" \in is_none
  THEN Raise("TypeError", "not_iterable", <<"output_feature_names">>)
  ELSE LET old_input == {k \in DOMAIN name_shape_dict : HasColon(k)}
           old_output == SelectSeq(feature_names, HasColon)
       IN IF Cardinality(old_input) > 0 \/ Len(old_output) > 0
          THEN Raise("ValueError", "naming_convention", <<>>)
          ELSE NoError

\* ------------------------------------------------------------------- state
VARIABLES
  OPS,                      \* the topologically sorted operations of the graph
  output_feature_names,     \* argument: requested output tensor names
  input_name_shape_dict,    \* argument: input tensor name -> override shape
  add_custom_layers,        \* argument: permit custom layers
  target_ios,               \* argument: target deployment version
  defaulted,                \* the arguments of NoneDefaults that are None
  pc,                       \* the stage the conversion is about to run
  error,                    \* the exception that ended the conversion, if any
  BLOB_GRAPH,               \* tensor name -> names of the operations it feeds
  SHAPE_DICT,               \* tensor name -> shape
  CONSTS,                   \* tensor name -> evaluated constant
  input_feed_dict,          \* list of (placeholder tensor, shape of the fed value)
  unused_ops,
  effectively_constant_ops,
  probe,                    \* "pending", "returned" or "raised"
  shapes_wanted,
  consts_wanted,
  run_calls,                \* number of Session.run calls of the shape pass
  tensors_evaluated,        \* tensor name -> shape of the value the run returned
  output_features,
  input_features,
  context,
  layers,                   \* builder.nn_spec.layers
  ops_converted_to_custom_layers,
  spec_inputs,              \* names of builder.spec.description.input
  spec_outputs              \* names of builder.spec.description.output

vars == <<OPS, output_feature_names, input_name_shape_dict, add_custom_layers,
          target_ios, defaulted, pc, error, BLOB_GRAPH, SHAPE_DICT, CONSTS,
          input_feed_dict, unused_ops,
          effectively_constant_ops, probe, shapes_wanted, consts_wanted, run_calls,
          tensors_evaluated, output_features, input_features, context, layers,
          ops_converted_to_custom_layers, spec_inputs, spec_outputs>>

args == <<OPS, output_feature_names, input_name_shape_dict, add_custom_layers,
          target_ios>>

NullContext ==
  [built |-> FALSE, consts |-> EmptyMap, shape_dict |-> EmptyMap, all_ops |-> <<>>,
   blob_graph |-> EmptyMap, output_names |-> <<>>, translated |-> {},
   unused_ops |-> <<>>, effectively_constant_ops |-> <<>>,
   add_custom_layers |-> FALSE, has_builder |-> FALSE]

\* Requested outputs: no name, one name or two names, each the name of a
\* tensor of the graph or a name the graph does not have; two tensors of the
\* graph are requested in the order of the graph or are the same tensor.
OutputChoices(ops) ==
  LET T == OutputNamesOf(ops)
      C == T \cup {MissingName}
      pos(a) == CHOOSE i \in DOMAIN ops : ops[i].name = Producer(ops, a)
  IN {<<>>} \cup {<<a>> : a \in C}
       \cup {<<a, b>> : a \in {MissingName}, b \in C}
       \cup {<<a, b>> : a \in T, b \in {MissingName}}
       \cup {p \in {<<a, b>> : a \in T, b \in T} : pos(p[1]) <= pos(p[2])}

Fresh ==
  /\ pc = "convert"
  /\ error = NoError
  /\ BLOB_GRAPH = EmptyMap
  /\ SHAPE_DICT = EmptyMap
  /\ CONSTS = EmptyMap
  /\ input_feed_dict = <<>>
  /\ unused_ops = <<>>
  /\ effectively_constant_ops = <<>>
  /\ probe = "pending"
  /\ shapes_wanted = <<>>
  /\ consts_wanted = <<>>
  /\ run_calls = 0
  /\ tensors_evaluated = EmptyMap
  /\ output_features = <<>>
  /\ input_features = <<>>
  /\ context = NullContext
  /\ layers = <<>>
  /\ ops_converted_to_custom_layers = <<>>
  /\ spec_inputs = <<>>
  /\ spec_outputs = <<>>

\* Conversions that vary the operation types, the requested outputs and the
\* custom-layer flag.
InitTypes ==
  /\ OPS \in TypeGraphs
  /\ output_feature_names \in OutputChoices(OPS)
  /\ input_name_shape_dict = EmptyMap
  /\ add_custom_layers \in BOOLEAN
  /\ target_ios = "12"
  /\ defaulted = {}
  /\ Fresh

\* Conversions that vary the declared shapes and the override shape of the
\* placeholder.
InitShapes ==
  /\ OPS \in ShapeGraphs
  /\ output_feature_names = <<TensorName(OpName(2), 0)>>
  /\ input_name_shape_dict \in
       {EmptyMap} \cup {TensorName(OpName(1), 0) :> s : s \in ConcreteShapes}
  /\ add_custom_layers = FALSE
  /\ target_ios = "12"
  /\ defaulted = {}
  /\ Fresh

\* Conversions that vary the constant-producing operations; the last tensor
\* of the graph is the requested output.
InitConsts ==
  /\ OPS \in ConstGraphs
  /\ output_feature_names = <<OPS[Len(OPS)].outputs[1].name>>
  /\ input_name_shape_dict = EmptyMap
  /\ add_custom_layers \in BOOLEAN
  /\ target_ios = "12"
  /\ defaulted = {}
  /\ Fresh

\* Conversions of graphs with fan-out; the last tensor of the graph is the
\* requested output.
InitFanOut ==
  /\ OPS \in FanOutGraphs
  /\ output_feature_names = <<OPS[Len(OPS)].outputs[1].name>>
  /\ input_name_shape_dict = EmptyMap
  /\ add_custom_layers = FALSE
  /\ target_ios = "12"
  /\ defaulted = {}
  /\ Fresh

\* Target versions: the supported ones and one that is not supported.
TargetChoices == SeqSet(supported_ios_version) \cup {"14"}

\* Calls of convert that vary the target version, the arguments left at
\* None and the naming convention of the names given (the name of an
\* operation, or the name of its output tensor with ':'); an argument that
\* is None is shown as the empty value it is replaced by.
InitConvert ==
  /\ OPS = <<MkOp(1, "Placeholder", DefaultShape), MkOp(2, "Identity", DefaultShape)>>
  /\ target_ios \in TargetChoices
  /\ defaulted \in SUBSET NoneDefaults
  /\ output_feature_names \in
       IF "output_feature_names" \in defaulted THEN {<<>>}
       ELSE {<<>>, <<OpName(2)>>, <<TensorName(OpName(2), 0)>>,
             <<OpName(2), TensorName(OpName(2), 0)>>, <<OpName(2), OpName(1)>>}
  /\ input_name_shape_dict \in
       IF "input_name_shape_dict" \in defaulted THEN {EmptyMap}
       ELSE {EmptyMap, OpName(1) :> DefaultShape,
             TensorName(OpName(1), 0) :> DefaultShape}
  /\ add_custom_layers = FALSE
  /\ Fresh

Init == InitTypes \/ InitConsts \/ InitShapes \/ InitConvert \/ InitFanOut

Fail(e) ==
  /\ pc' = "failed"
  /\ error' = e

\* convert, lines 665-697: an unsupported target is rejected; for a target
\* with ND-array support the names are checked and the call is handed to the
\* converter of coremltools; otherwise a missing shape dictionary becomes {}
\* and a missing output list is rejected before _convert_pb_to_mlmodel runs.
Convert ==
  /\ pc = "convert"
  /\ IF ~ios_support_check(target_ios)
     THEN /\ Fail(Raise("TypeError", "target_ios", <<target_ios>>))
          /\ UNCHANGED defaulted
     ELSE IF is_nd_array_supported(target_ios)
     THEN LET e == check_input_output_names(input_name_shape_dict,
                                            output_feature_names, defaulted)
          IN /\ IF e.kind # "none" THEN Fail(e)
                ELSE pc' = "delegated" /\ error' = error
             /\ UNCHANGED defaulted
     ELSE /\ defaulted' = defaulted \ {"input_name_shape_dict"}
          /\ IF "output_feature_names" \in defaulted
             THEN Fail(Raise("ValueError", "outputs_required", <<>>))
             ELSE pc' = "load" /\ error' = error
  /\ UNCHANGED <<args, BLOB_GRAPH, SHAPE_DICT, CONSTS, input_feed_dict, unused_ops,
                 effectively_constant_ops, probe, shapes_wanted, consts_wanted,
                 run_calls, tensors_evaluated, output_features, input_features,
                 context, layers, ops_converted_to_custom_layers, spec_inputs,
                 spec_outputs>>

\* Lines 222-233: the graph is loaded; a DecodeJpeg operation is rejected.
\* OPS is the list _topological_sort_ops returns: every operation comes after
\* the operations that produce its inputs.
LoadGraph ==
  /\ pc = "load"
  /\ IF \E i \in DOMAIN OPS : OPS[i].type = "DecodeJpeg"
     THEN Fail(Raise("NotImplementedError", "DecodeJpeg", <<"DecodeJpeg">>))
     ELSE pc' = "blob_graph" /\ error' = error
  /\ UNCHANGED <<args, defaulted, BLOB_GRAPH, SHAPE_DICT, CONSTS, input_feed_dict, unused_ops,
                 effectively_constant_ops, probe, shapes_wanted, consts_wanted,
                 run_calls, tensors_evaluated, output_features, input_features,
                 context, layers, ops_converted_to_custom_layers, spec_inputs,
                 spec_outputs>>

\* Lines 235-246
BuildBlobGraph ==
  /\ pc = "blob_graph"
  /\ BLOB_GRAPH' = BuildBlobGraphFrom(OPS, 1, EmptyMap)
  /\ pc' = "placeholders"
  /\ UNCHANGED <<args, defaulted, error, SHAPE_DICT, CONSTS, input_feed_dict, unused_ops,
                 effectively_constant_ops, probe, shapes_wanted, consts_wanted,
                 run_calls, tensors_evaluated, output_features, input_features,
                 context, layers, ops_converted_to_custom_layers, spec_inputs,
                 spec_outputs>>

\* Lines 248-286
PlaceholderPass ==
  /\ pc = "placeholders"
  /\ LET r == PlaceholderLoop(OPS, output_feature_names, input_name_shape_dict, 1,
                              SHAPE_DICT, <<>>)
     IN IF r.error.kind # "none"
        THEN Fail(r.error) /\ UNCHANGED <<SHAPE_DICT, input_feed_dict>>
        ELSE /\ pc' = "probe"
             /\ SHAPE_DICT' = r.SHAPE_DICT
             /\ input_feed_dict' = r.input_feed_dict
             /\ error' = error
  /\ UNCHANGED <<args, defaulted, BLOB_GRAPH, CONSTS, unused_ops, effectively_constant_ops,
                 probe, shapes_wanted, consts_wanted, run_calls, tensors_evaluated,
                 output_features, input_features, context, layers,
                 ops_converted_to_custom_layers, spec_inputs, spec_outputs>>

\* Lines 288-296: the probe runs the graph on both input assignments; the run
\* raises when a fed value does not fit its placeholder and can raise for any
\* failure of the execution engine.
Probe ==
  /\ pc = "probe"
  /\ \E raised \in {b \in BOOLEAN : b \/ FeedAccepted(OPS, input_feed_dict)} :
       \E result \in _find_unused_ops(OPS, output_feature_names, input_feed_dict) :
          LET r == GuardedProbe(raised, result)
          IN /\ unused_ops' = r.unused_ops
             /\ effectively_constant_ops' = r.effectively_constant_ops
             /\ probe' = IF raised THEN "raised" ELSE "returned"
             /\ IF r.error.kind # "none"
                THEN Fail(r.error)
                ELSE pc' = "static_shapes" /\ error' = error
  /\ UNCHANGED <<args, defaulted, BLOB_GRAPH, SHAPE_DICT, CONSTS, input_feed_dict,
                 shapes_wanted, consts_wanted, run_calls, tensors_evaluated,
                 output_features, input_features, context, layers,
                 ops_converted_to_custom_layers, spec_inputs, spec_outputs>>

\* Lines 298-318
StaticShapePass ==
  /\ pc = "static_shapes"
  /\ LET r == StaticLoop(OPS, effectively_constant_ops, 1, SHAPE_DICT, <<>>, <<>>)
     IN /\ SHAPE_DICT' = r.SHAPE_DICT
        /\ shapes_wanted' = r.shapes_wanted
        /\ consts_wanted' = r.consts_wanted
  /\ pc' = "run"
  /\ UNCHANGED <<args, defaulted, error, BLOB_GRAPH, CONSTS, input_feed_dict, unused_ops,
                 effectively_constant_ops, probe, run_calls, tensors_evaluated,
                 output_features, input_features, context, layers,
                 ops_converted_to_custom_layers, spec_inputs, spec_outputs>>

\* Lines 320-333
RunSession ==
  /\ pc = "run"
  /\ IF Len(shapes_wanted) > 0 \/ Len(consts_wanted) > 0
     THEN LET tensor_names == shapes_wanted \o consts_wanted
          IN /\ run_calls' = run_calls + 1
             /\ \/ /\ Fail(Raise("RuntimeError", "session_run", <<>>))
                   /\ UNCHANGED <<SHAPE_DICT, CONSTS, tensors_evaluated>>
                \/ /\ FeedAccepted(OPS, input_feed_dict)
                   /\ \E realized \in Realizations(OPS, input_feed_dict,
                                                   SeqSet(tensor_names)) :
                        LET r == RecordEvaluated(tensor_names, consts_wanted,
                                   [i \in DOMAIN tensor_names |-> realized[tensor_names[i]]],
                                   1, SHAPE_DICT, CONSTS)
                        IN /\ SHAPE_DICT' = r.SHAPE_DICT
                           /\ CONSTS' = r.CONSTS
                           /\ tensors_evaluated' = realized
                   /\ pc' = "outputs"
                   /\ error' = error
     ELSE /\ pc' = "outputs"
          /\ UNCHANGED <<error, SHAPE_DICT, CONSTS, tensors_evaluated, run_calls>>
  /\ UNCHANGED <<args, defaulted, BLOB_GRAPH, input_feed_dict, unused_ops,
                 effectively_constant_ops, probe, shapes_wanted, consts_wanted,
                 output_features, input_features, context, layers,
                 ops_converted_to_custom_layers, spec_inputs, spec_outputs>>


\* Lines 335-356
FillOutputs ==
  /\ pc = "outputs"
  /\ LET r == OutputLoop(OPS, 1, output_feature_names, SHAPE_DICT, <<>>)
         e == IF r.error.kind # "none" THEN r.error
              ELSE MissingOutputError(r.output_features, output_feature_names)
     IN IF e.kind # "none"
        THEN Fail(e) /\ UNCHANGED output_features
        ELSE /\ output_features' = r.output_features
             /\ pc' = "check"
             /\ error' = error
  /\ UNCHANGED <<args, defaulted, BLOB_GRAPH, SHAPE_DICT, CONSTS, input_feed_dict, unused_ops,
                 effectively_constant_ops, probe, shapes_wanted, consts_wanted,
                 run_calls, tensors_evaluated, input_features, context, layers,
                 ops_converted_to_custom_layers, spec_inputs, spec_outputs>>

\* A gate that runs the check whatever the flag says.
UngatedCheck(custom, ops, outs, skip_ops) ==
  _check_unsupported_ops(ops, outs, skip_ops)

\* Lines 358-359: the list of types the check raises for (empty: no error).
UnsupportedGate(custom, ops, outs, skip_ops) ==
  IF ~custom THEN _check_unsupported_ops(ops, outs, skip_ops) ELSE <<>>

CheckUnsupportedOps ==
  /\ pc = "check"
  /\ LET types == UnsupportedGate(add_custom_layers, OPS, output_feature_names,
                                  effectively_constant_ops \o unused_ops)
     IN IF Len(types) > 0
        THEN Fail(Raise("NotImplementedError", "unsupported_ops", types))
        ELSE pc' = "context" /\ error' = error
  /\ UNCHANGED <<args, defaulted, BLOB_GRAPH, SHAPE_DICT, CONSTS, input_feed_dict, unused_ops,
                 effectively_constant_ops, probe, shapes_wanted, consts_wanted,
                 run_calls, tensors_evaluated, output_features, input_features,
                 context, layers, ops_converted_to_custom_layers, spec_inputs,
                 spec_outputs>>

\* Context.__init__, lines 83-114
NewContext(consts, shape_dict, ops, blob_graph, features) ==
  [built |-> TRUE, consts |-> consts, shape_dict |-> shape_dict, all_ops |-> ops,
   blob_graph |-> blob_graph, output_names |-> FeatureNames(features),
   translated |-> DOMAIN consts, unused_ops |-> <<>>,
   effectively_constant_ops |-> <<>>, add_custom_layers |-> FALSE,
   has_builder |-> FALSE]

\* Line 364
MakeContext ==
  /\ pc = "context"
  /\ context' = NewContext(CONSTS, SHAPE_DICT, OPS, BLOB_GRAPH, output_features)
  /\ pc' = "inputs"
  /\ UNCHANGED <<args, defaulted, error, BLOB_GRAPH, SHAPE_DICT, CONSTS, input_feed_dict,
                 unused_ops, effectively_constant_ops, probe, shapes_wanted,
                 consts_wanted, run_calls, tensors_evaluated, output_features,
                 input_features, layers, ops_converted_to_custom_layers,
                 spec_inputs, spec_outputs>>

\* Lines 366-394.  The automatic shape interpretation (interpret_shape, which
\* only refines the shape given to Core ML for an input) and the sequence
\* descriptions of lines 417-432 are left to the collaborators they belong to.
InterpretInputs ==
  /\ pc = "inputs"
  /\ LET r == InputLoop(OPS, input_feed_dict, 1, SHAPE_DICT, <<>>)
     IN IF r.error.kind # "none"
        THEN Fail(r.error) /\ UNCHANGED input_features
        ELSE /\ input_features' = r.input_features
             /\ pc' = "lower"
             /\ error' = error
  /\ UNCHANGED <<args, defaulted, BLOB_GRAPH, SHAPE_DICT, CONSTS, input_feed_dict, unused_ops,
                 effectively_constant_ops, probe, shapes_wanted, consts_wanted,
                 run_calls, tensors_evaluated, output_features, context, layers,
                 ops_converted_to_custom_layers, spec_inputs, spec_outputs>>

\* Lines 400-411: the builder is made from the feature lists, the Context is
\* completed and the dispatcher is invoked.
Lower ==
  /\ pc = "lower"
  /\ LET ctx == [context EXCEPT !.has_builder = TRUE,
                                !.unused_ops = unused_ops,
                                !.effectively_constant_ops = effectively_constant_ops,
                                !.add_custom_layers = add_custom_layers]
         r == convert_ops_to_layers(ctx, 1, <<>>, <<>>)
     IN /\ context' = ctx
        /\ spec_inputs' = FeatureNames(input_features)
        /\ spec_outputs' = FeatureNames(output_features)
        /\ layers' = r.layers
        /\ ops_converted_to_custom_layers' = r.ops_converted_to_custom_layers
        /\ IF r.error.kind # "none"
           THEN Fail(r.error)
           ELSE pc' = "canonicalize" /\ error' = error
  /\ UNCHANGED <<args, defaulted, BLOB_GRAPH, SHAPE_DICT, CONSTS, input_feed_dict, unused_ops,
                 effectively_constant_ops, probe, shapes_wanted, consts_wanted,
                 run_calls, tensors_evaluated, output_features, input_features>>

\* Lines 439-458
Canonicalize ==
  /\ pc = "canonicalize"
  /\ LET interface_blob_names == spec_inputs \o spec_outputs
     IN /\ spec_inputs' = RenameDescription(spec_inputs)
        /\ spec_outputs' = RenameDescription(spec_outputs)
        /\ layers' = RenameLayers(layers, interface_blob_names)
  /\ pc' = "done"
  /\ UNCHANGED <<args, defaulted, error, BLOB_GRAPH, SHAPE_DICT, CONSTS, input_feed_dict,
                 unused_ops, effectively_constant_ops, probe, shapes_wanted,
                 consts_wanted, run_calls, tensors_evaluated, output_features,
                 input_features, context, ops_converted_to_custom_layers>>

Next ==
  \/ Convert
  \/ LoadGraph
  \/ BuildBlobGraph
  \/ PlaceholderPass
  \/ Probe
  \/ StaticShapePass
  \/ RunSession
  \/ FillOutputs
  \/ CheckUnsupportedOps
  \/ MakeContext
  \/ InterpretInputs
  \/ Lower
  \/ Canonicalize

Spec == Init /\ [][Next]_vars


\* ================================================================== claims
\* Stages, in the order the conversion runs them.
StageNo(p) ==
  CASE p \in {"convert", "delegated"} -> 0
    [] p = "load" -> 1 [] p = "blob_graph" -> 2 [] p = "placeholders" -> 3
    [] p = "probe" -> 4 [] p = "static_shapes" -> 5 [] p = "run" -> 6
    [] p = "outputs" -> 7 [] p = "check" -> 8 [] p = "context" -> 9
    [] p = "inputs" -> 10 [] p = "lower" -> 11 [] p = "canonicalize" -> 12
    [] OTHER -> 13

\* The stage whose action raised the error of a failed conversion.
FailedStage ==
  CASE error.what \in {"target_ios", "not_iterable", "naming_convention",
                       "outputs_required"} -> "convert"
    [] error.what = "DecodeJpeg" -> "load"
    [] error.what \in {"placeholder_output", "shape_unknown_rank", "shape_incomplete"}
         -> "placeholders"
    [] error.what = "probe" -> "probe"
    [] error.what = "session_run" -> "run"
    [] error.what \in {"missing_output", "output_rank", "output_shape"} -> "outputs"
    [] error.what = "unsupported_ops" -> "check"
    [] error.what \in {"no_consumer", "input_rank", "input_shape"} -> "inputs"
    [] OTHER -> "lower"

\* The stage p has run (to completion or to the error of the conversion).
Ran(p) ==
  IF pc = "failed" THEN StageNo(FailedStage) >= StageNo(p)
  ELSE StageNo(pc) > StageNo(p)

\* The stage p has run and has not raised.
Passed(p) ==
  IF pc = "failed" THEN StageNo(FailedStage) > StageNo(p)
  ELSE StageNo(pc) > StageNo(p)

\* ---- C1
OutputsBefore(i) ==
  UNION {{OPS[j].outputs[k].name : k \in DOMAIN OPS[j].outputs} : j \in 1..(i - 1)}

\* The operations the check looks at: those reached before every requested
\* output has been produced.
Scanned ==
  {i \in DOMAIN OPS :
     \E k \in DOMAIN output_feature_names :
        output_feature_names[k] \notin OutputsBefore(i)}

Blockers ==
  {i \in Scanned : /\ OPS[i].type \notin OP_REGISTRY
                   /\ OPS[i].name \notin SeqSet(effectively_constant_ops)
                   /\ OPS[i].name \notin SeqSet(unused_ops)}

FirstBlocker(t) ==
  CHOOSE i \in Blockers :
    OPS[i].type = t /\ \A j \in Blockers : OPS[j].type = t => i <= j

\* C1: with custom layers disabled, once the unsupported-operation check has
\* run, the conversion has failed in it iff some scanned operation outside
\* the skip set has an unregistered type, and the error then lists every such
\* type exactly once, in the order of first occurrence.
C1_UnsupportedListed ==
  (~add_custom_layers /\ Ran("check")) =>
     IF Blockers # {}
     THEN /\ pc = "failed"
          /\ error.kind = "NotImplementedError"
          /\ error.what = "unsupported_ops"
          /\ SeqSet(error.arg) = {OPS[i].type : i \in Blockers}
          /\ \A a, b \in DOMAIN error.arg :
                a < b => FirstBlocker(error.arg[a]) < FirstBlocker(error.arg[b])
     ELSE error.what # "unsupported_ops"

\* The check has failed a conversion with a list of two unsupported types.
C1_Witness ==
  /\ ~add_custom_layers
  /\ pc = "failed"
  /\ error.what = "unsupported_ops"
  /\ Len(error.arg) = 2
  /\ OPS[1].type = "Placeholder"

\* ---- C2
\* C2 as stated: with custom layers enabled the conversion never fails with
\* an unsupported-operation error.
C2_NeverUnsupported ==
  add_custom_layers => error.kind # "NotImplementedError"

\* C2 amended: with custom layers enabled, the only unsupported-operation
\* error is the one raised at load for a graph that has a DecodeJpeg
\* operation; an operation of any other unregistered type does not fail the
\* conversion.
C2_OnlyDecodeJpeg ==
  add_custom_layers =>
     /\ error.kind = "NotImplementedError" =>
           /\ error.what = "DecodeJpeg"
           /\ \E i \in DOMAIN OPS : OPS[i].type = "DecodeJpeg"
     /\ (\E i \in DOMAIN OPS : OPS[i].type = "DecodeJpeg") =>
           (pc \in {"convert", "load"} \/ (pc = "failed" /\ error.what = "DecodeJpeg"))

\* A conversion with custom layers enabled completes although a live
\* operation has an unregistered type.
C2_Witness ==
  /\ add_custom_layers
  /\ pc = "done"
  /\ ops_converted_to_custom_layers # <<>>


\* ---- C3
Placeholders == {i \in DOMAIN OPS : OPS[i].type = "Placeholder"}
InputName(i) == OPS[i].outputs[1].name
Declared(i) == OPS[i].outputs[1].shape

\* The case of the claim that applies to placeholder i.
ShapeCase(i) ==
  IF InputName(i) \in DOMAIN input_name_shape_dict THEN "override"
  ELSE IF Declared(i) # UnknownRank /\ \A k \in DOMAIN Declared(i) : Declared(i)[k] # NoneDim
  THEN "declared"
  ELSE IF /\ Declared(i) # UnknownRank
          /\ Len(Declared(i)) >= 1
          /\ Declared(i)[1] = NoneDim
          /\ \A k \in 2..Len(Declared(i)) : Declared(i)[k] # NoneDim
  THEN "leading"
  ELSE "other"

ExpectedShape(i) ==
  CASE ShapeCase(i) = "override" -> input_name_shape_dict[InputName(i)]
    [] ShapeCase(i) = "declared" -> Declared(i)
    [] ShapeCase(i) = "leading" -> [k \in DOMAIN Declared(i) |->
                                      IF k = 1 THEN 1 ELSE Declared(i)[k]]
    [] OTHER -> <<>>

ShapeErrors == {"shape_unknown_rank", "shape_incomplete"}

\* C3: when the placeholder pass has committed its shapes, every placeholder
\* has the override, else the fully defined declared shape, else the declared
\* shape with its undetermined leading dimension replaced by 1; a placeholder
\* in any other case makes the pass fail with a ValueError that names it, and
\* the pass raises that error for no other placeholder.
C3_PlaceholderShape ==
  /\ pc = "probe" =>
       \A i \in Placeholders :
          /\ ShapeCase(i) # "other"
          /\ InputName(i) \in DOMAIN SHAPE_DICT
          /\ SHAPE_DICT[InputName(i)] = ExpectedShape(i)
  /\ error.what \in ShapeErrors =>
       /\ pc = "failed"
       /\ error.kind = "ValueError"
       /\ \E i \in Placeholders : InputName(i) = error.arg /\ ShapeCase(i) = "other"
  /\ (Ran("placeholders") /\ \E i \in Placeholders : ShapeCase(i) = "other") =>
       /\ pc = "failed"
       /\ error.what \in ShapeErrors \cup {"placeholder_output"}

\* The pass has committed a shape of rank 2 whose leading dimension it set
\* to 1.
C3_Witness ==
  /\ pc = "probe"
  /\ \E i \in Placeholders :
        /\ ShapeCase(i) = "leading"
        /\ Len(Declared(i)) = 2
        /\ SHAPE_DICT[InputName(i)][1] = 1

\* ---- C4
NoneTen == <<NoneDim, 10>>

\* C4 as stated: a placeholder declared (None, 10) without an override makes
\* the conversion fail with a shape error that names the input.
C4_FailsWithoutOverride ==
  \A i \in Placeholders :
     (/\ Declared(i) = NoneTen
      /\ InputName(i) \notin DOMAIN input_name_shape_dict
      /\ Ran("placeholders"))
     => (pc = "failed" /\ error.what \in ShapeErrors /\ error.arg = InputName(i))

\* C4 amended: a placeholder declared (None, 10) raises no shape error, with
\* no override and with the override [1, 10] alike, and in both cases the
\* shape [1, 10] is committed for it and stays committed.
C4_LeadingOne ==
  \A i \in Placeholders :
     (/\ Declared(i) = NoneTen
      /\ \/ InputName(i) \notin DOMAIN input_name_shape_dict
         \/ input_name_shape_dict[InputName(i)] = <<1, 10>>)
     => /\ error.what \notin ShapeErrors
        /\ Passed("placeholders") =>
              /\ InputName(i) \in DOMAIN SHAPE_DICT
              /\ SHAPE_DICT[InputName(i)] = <<1, 10>>

\* The conversion of a graph with a (None, 10) placeholder and no override
\* completes.
C4_Witness ==
  /\ pc = "done"
  /\ input_name_shape_dict = EmptyMap
  /\ \E i \in Placeholders : Declared(i) = NoneTen /\ SHAPE_DICT[InputName(i)] = <<1, 10>>

\* ---- C5
\* C5: a shape committed for a tensor name is not replaced by a different
\* value in any later step.
C5_NeverOverwritten ==
  [][\A n \in DOMAIN SHAPE_DICT :
        n \in DOMAIN SHAPE_DICT' /\ SHAPE_DICT'[n] = SHAPE_DICT[n]]_vars

\* ---- C6
AllOutputs ==
  {<<i, k>> : i \in DOMAIN OPS, k \in 1..2} \cap
  UNION {{<<i, k>> : k \in DOMAIN OPS[i].outputs} : i \in DOMAIN OPS}

\* C6: when the dispatcher is invoked, every output tensor of every operation
\* has an entry in the shape dictionary (the one the Context holds): its
\* declared shape if that is fully defined, else the shape of the value the
\* run returned for it, the tensor having been on the wanted list.
C6_ShapeDictComplete ==
  Ran("inputs") /\ Passed("inputs") =>
     /\ context.shape_dict = SHAPE_DICT
     /\ \A p \in AllOutputs :
          LET out == OPS[p[1]].outputs[p[2]]
          IN /\ out.name \in DOMAIN SHAPE_DICT
             /\ IF is_fully_defined(out.shape)
                THEN SHAPE_DICT[out.name] = out.shape
                ELSE /\ out.name \in SeqSet(shapes_wanted)
                     /\ out.name \in DOMAIN tensors_evaluated
                     /\ SHAPE_DICT[out.name] = tensors_evaluated[out.name]

\* The dispatcher is about to run on a graph that has an operation output of
\* unknown rank, recorded from the run, and a Const operation.
C6_Witness ==
  /\ pc = "lower"
  /\ \E p \in AllOutputs :
        /\ OPS[p[1]].type # "Placeholder"
        /\ OPS[p[1]].outputs[p[2]].shape = UnknownRank
  /\ \E p \in AllOutputs : OPS[p[1]].type = "Const"

\* ---- C7
\* C7: a probe that raised leaves the conversion running with both sets
\* empty: the error is never the probe's, the skip list given to the
\* unsupported-operation check is empty, only literal constants are wanted
\* and the Context given to the dispatcher has both sets empty.
C7_ProbeFailureSwallowed ==
  probe = "raised" =>
     /\ error.what # "probe"
     /\ Ran("probe") /\ Passed("probe")
     /\ unused_ops = <<>>
     /\ effectively_constant_ops = <<>>
     /\ context.unused_ops = <<>>
     /\ context.effectively_constant_ops = <<>>
     /\ \A k \in DOMAIN consts_wanted :
           \E i \in DOMAIN OPS : OPS[i].type = "Const"
                                   /\ OPS[i].outputs[1].name = consts_wanted[k]
     /\ (error.what = "unsupported_ops" /\ ~add_custom_layers) =>
           SeqSet(error.arg) =
             {OPS[i].type : i \in {j \in Scanned : OPS[j].type \notin OP_REGISTRY}}

\* A conversion whose probe raised completes although the graph has an
\* operation that a probe would have reported unused.
C7_Witness ==
  /\ probe = "raised"
  /\ pc = "done"
  /\ UnusedOps(OPS, output_feature_names) # <<>>

\* ---- C8
ConstKind(i) == OPS[i].type = "Const"
MarkedConstant(i) == OPS[i].name \in SeqSet(effectively_constant_ops)

\* C8 as stated: after the execution pass the constant table has a value for
\* the output of every Const operation and of every operation marked
\* effectively constant.
C8_AllMarkedCaptured ==
  Ran("run") /\ Passed("run") =>
     \A i \in DOMAIN OPS :
        (ConstKind(i) \/ MarkedConstant(i)) => OPS[i].outputs[1].name \in DOMAIN CONSTS

\* C8 amended: after the execution pass the constant table has the evaluated
\* value of the output of every Const operation and of every Dequantize
\* operation marked effectively constant.
C8_ConstAndDequantizeCaptured ==
  Ran("run") /\ Passed("run") =>
     \A i \in DOMAIN OPS :
        (ConstKind(i) \/ (OPS[i].type = "Dequantize" /\ MarkedConstant(i))) =>
           /\ OPS[i].outputs[1].name \in DOMAIN CONSTS
           /\ CONSTS[OPS[i].outputs[1].name] = tensors_evaluated[OPS[i].outputs[1].name]

\* The execution pass has stored the value of a Dequantize operation that
\* the probe marked effectively constant.
C8_Witness ==
  /\ Ran("run") /\ Passed("run")
  /\ \E i \in DOMAIN OPS :
        /\ OPS[i].type = "Dequantize"
        /\ MarkedConstant(i)
        /\ OPS[i].outputs[1].name \in DOMAIN CONSTS


\* ---- C9
\* The rewritten form of a name: every ':' and every '/' becomes '__'.
RECURSIVE Rewritten(_)
Rewritten(name) ==
  IF name = <<>> THEN <<>>
  ELSE LET rest == Rewritten(SubSeq(name, 1, Len(name) - 1))
           last == name[Len(name)]
       IN IF last \in {":", "/"} THEN rest \o <<"_", "_">> ELSE Append(rest, last)

Separators == {":", "/"}

\* C9: the canonicalization step replaces every input and output feature
\* name, and every layer input or output reference equal to one of them, by
\* the rewritten form of that name, and leaves every other layer reference
\* as it was.
C9_ConsistentRewrite ==
  [][(pc = "canonicalize" /\ pc' = "done") =>
       LET interface == SeqSet(spec_inputs) \cup SeqSet(spec_outputs)
           ok(old, new) ==
             /\ DOMAIN new = DOMAIN old
             /\ \A j \in DOMAIN old :
                   new[j] = IF old[j] \in interface THEN Rewritten(old[j]) ELSE old[j]
       IN /\ ok(spec_inputs, spec_inputs')
          /\ ok(spec_outputs, spec_outputs')
          /\ DOMAIN layers' = DOMAIN layers
          /\ \A i \in DOMAIN layers :
                /\ ok(layers[i].input, layers'[i].input)
                /\ ok(layers[i].output, layers'[i].output)
          /\ \A i \in DOMAIN layers' : \A n \in interface :
                (SeqSet(n) \cap Separators # {}) =>
                   n \notin SeqSet(layers'[i].input) \cup SeqSet(layers'[i].output)]_vars

\* A canonicalized graph in which a layer output is an output feature whose
\* name had a '/' and a ':', and a layer input is an internal tensor that
\* kept its ':'.
C9_Witness ==
  /\ pc = "done"
  /\ \E k \in DOMAIN spec_outputs :
        /\ "/" \in SeqSet(output_features[k].name)
        /\ \E i \in DOMAIN layers : spec_outputs[k] \in SeqSet(layers[i].output)
  /\ \E i \in DOMAIN layers : \E j \in DOMAIN layers[i].input :
        ":" \in SeqSet(layers[i].input[j])

\* ---- C10
OriginalInterfaceNames ==
  SeqSet(FeatureNames(input_features)) \cup SeqSet(FeatureNames(output_features))

\* C10: a conversion that completes has given distinct rewritten names to
\* distinct interface names.
C10_NoSilentCollision ==
  pc = "done" =>
     \A a, b \in OriginalInterfaceNames : a # b => Rewritten(a) # Rewritten(b)

\* ---- C11
\* The results the probe can return for the arguments of this conversion, one
\* for each way the values drawn for the two input assignments can fall.
ProbeDraws == _find_unused_ops(OPS, output_feature_names, input_feed_dict)

\* The Context the dispatcher is given when the probe has returned r.
ContextFor(r) ==
  [context EXCEPT !.has_builder = TRUE,
                  !.unused_ops = r.unused_ops,
                  !.effectively_constant_ops = r.effectively_constant_ops,
                  !.add_custom_layers = add_custom_layers]

\* C11: the result of a conversion whose probe returned is the result of
\* every conversion of the same graph with the same arguments, whatever
\* values are drawn for the two input assignments: the same unused and
\* effectively-constant lists, the same keys in the constant table, the same
\* outcome of the unsupported-operation check and the same layers.
C11_SameForEveryDraw ==
  probe = "returned" =>
     \A r \in ProbeDraws :
        /\ unused_ops = r.unused_ops
        /\ effectively_constant_ops = r.effectively_constant_ops
        /\ (Ran("run") /\ Passed("run")) =>
              DOMAIN CONSTS =
                {OPS[i].outputs[1].name :
                   i \in {j \in DOMAIN OPS : IsConstOp(OPS[j], r.effectively_constant_ops)}}
        /\ Ran("check") =>
              ((pc = "failed" /\ error.what = "unsupported_ops")
                 <=> Len(UnsupportedGate(add_custom_layers, OPS, output_feature_names,
                           r.effectively_constant_ops \o r.unused_ops)) > 0)
        /\ pc = "canonicalize" =>
              layers = convert_ops_to_layers(ContextFor(r), 1, <<>>, <<>>).layers
        /\ pc = "done" =>
              layers = RenameLayers(convert_ops_to_layers(ContextFor(r), 1, <<>>, <<>>).layers,
                                    FeatureNames(input_features)
                                      \o FeatureNames(output_features))

\* ---- C12
NamesWithColon ==
  {k \in DOMAIN input_name_shape_dict : HasColon(k)}
    \cup {n \in SeqSet(output_feature_names) : HasColon(n)}

\* C12: once convert has acted, a call with target '13' has raised a
\* ValueError if some key of the shape dictionary or some requested output
\* has a ':' and has been handed to the converter of coremltools otherwise,
\* arguments left at their default included; a call with a target that is
\* not supported has raised the TypeError of the version check.
C12_ConventionChecked ==
  pc # "convert" =>
     /\ target_ios = "13" =>
           IF NamesWithColon # {}
           THEN pc = "failed" /\ error.kind = "ValueError"
                  /\ error.what = "naming_convention"
           ELSE pc = "delegated"
     /\ target_ios \notin {"11.2", "12", "13"} =>
           pc = "failed" /\ error.kind = "TypeError" /\ error.what = "target_ios"

\* ---- C13
\* The Context holds every result of the stages before it: the ordered
\* operations, the consumer graph, the shape dictionary, the constant table,
\* the unused operations and the effectively constant operations.
ContextComplete ==
  /\ context.built
  /\ context.all_ops = OPS
  /\ context.blob_graph = BLOB_GRAPH
  /\ context.shape_dict = SHAPE_DICT
  /\ context.consts = CONSTS
  /\ context.unused_ops = unused_ops
  /\ context.effectively_constant_ops = effectively_constant_ops

\* C13: when the input-shape interpretation is about to read the Context,
\* and when the dispatcher has been given it, the Context holds every result
\* of the earlier stages, and those stages have all run to the end.
C13_ContextCompleteWhenRead ==
  (pc = "inputs" \/ context.has_builder) =>
     /\ ContextComplete
     /\ probe # "pending"
     /\ Passed("check")

\* ---- C14
\* The output tensors whose declared shape is not fully defined.
IncompleteOutputs ==
  {OPS[p[1]].outputs[p[2]].name :
     p \in {q \in AllOutputs : ~is_fully_defined(OPS[q[1]].outputs[q[2]].shape)}}

WantedNames == SeqSet(shapes_wanted) \cup SeqSet(consts_wanted)

\* C14: the shape pass calls the execution engine at most once, and exactly
\* when a wanted list is not empty; the one call evaluates every tensor
\* declared incompletely and every wanted constant on the input assignment
\* of the placeholder pass, and the result for a wanted name is what the
\* shape dictionary and the constant table hold under that name.
C14_OneBatchedRun ==
  /\ run_calls <= 1
  /\ ~Ran("run") => run_calls = 0
  /\ Ran("run") => (run_calls = 1 <=> WantedNames # {})
  /\ Ran("run") => SeqSet(shapes_wanted) = IncompleteOutputs
  /\ (Passed("run") /\ run_calls = 0) => (tensors_evaluated = EmptyMap /\ CONSTS = EmptyMap)
  /\ (Passed("run") /\ run_calls = 1) =>
        /\ DOMAIN tensors_evaluated = WantedNames
        /\ \A n \in WantedNames :
              /\ n \in DOMAIN SHAPE_DICT
              /\ SHAPE_DICT[n] = tensors_evaluated[n]
        /\ \A n \in SeqSet(consts_wanted) :
              /\ n \in DOMAIN CONSTS
              /\ CONSTS[n] = tensors_evaluated[n]
        /\ DOMAIN CONSTS = SeqSet(consts_wanted)
        /\ \A j \in DOMAIN input_feed_dict :
              input_feed_dict[j].name \in WantedNames =>
                 tensors_evaluated[input_feed_dict[j].name] = input_feed_dict[j].shape

\* One call has evaluated a tensor of unknown rank and a constant together,
\* and the two results have different shapes.
C14_Witness ==
  /\ Passed("run")
  /\ run_calls = 1
  /\ \E a \in SeqSet(shapes_wanted), b \in SeqSet(consts_wanted) :
        /\ a # b
        /\ tensors_evaluated[a] # tensors_evaluated[b]
        /\ SHAPE_DICT[a] = tensors_evaluated[a]

\* ---- C15
\* The number of input slots of operation i that read tensor t.
SlotsUsing(i, t) == Cardinality({j \in DOMAIN OPS[i].inputs : OPS[i].inputs[j] = t})

\* The operations among the first i that read tensor t, in the order of the
\* list, each once for every input slot that reads t.
RECURSIVE ConsumerList(_, _)
ConsumerList(t, i) ==
  IF i = 0 THEN <<>>
  ELSE ConsumerList(t, i - 1) \o [k \in 1..SlotsUsing(i, t) |-> OPS[i].name]

\* C15: once the consumer graph is built, its keys are the output tensors of
\* the operations, and the list under a tensor names the operations that
\* read it, in the order of the operation list, once for every input slot
\* that reads it.
C15_ConsumerGraphExact ==
  Passed("blob_graph") =>
     /\ DOMAIN BLOB_GRAPH = OutputNamesOf(OPS)
     /\ \A t \in OutputNamesOf(OPS) : BLOB_GRAPH[t] = ConsumerList(t, Len(OPS))

\* The consumer graph is built for a graph in which one tensor is read twice
\* by one operation and once by a later operation.
C15_Witness ==
  /\ Passed("blob_graph")
  /\ \E t \in DOMAIN BLOB_GRAPH :
        /\ Len(BLOB_GRAPH[t]) = 3
        /\ BLOB_GRAPH[t][1] = BLOB_GRAPH[t][2]
        /\ BLOB_GRAPH[t][2] # BLOB_GRAPH[t][3]

\* ---- C16
\* The positions of the requested names that no operation of the graph has
\* as the name of an output.
RequestedMissing ==
  {k \in DOMAIN output_feature_names : output_feature_names[k] \notin OutputNamesOf(OPS)}

FirstMissing ==
  output_feature_names[CHOOSE k \in RequestedMissing : \A l \in RequestedMissing : k <= l]

\* C16: a conversion with a requested name the graph does not have never
\* gets past the output stage, and when that stage has run it has failed
\* with a ValueError that names the first such name, with no Context built
\* and no layer lowered; that error is raised in no other case.  With no
\* such name, the output features collected are the distinct requested
\* names, one entry each.  When the placeholder pass has run and has not
\* rejected a shape, a requested name that is the output of a placeholder
\* has failed the conversion with an AssertionError.
C16_OutputsChecked ==
  /\ RequestedMissing # {} =>
        /\ ~Passed("outputs")
        /\ ~context.built
        /\ layers = <<>>
        /\ Ran("outputs") =>
              /\ pc = "failed"
              /\ error.kind = "ValueError"
              /\ error.what = "missing_output"
              /\ error.arg = FirstMissing
  /\ error.what = "missing_output" => RequestedMissing # {}
  /\ (RequestedMissing = {} /\ Passed("outputs")) =>
        /\ SeqSet(FeatureNames(output_features)) = SeqSet(output_feature_names)
        /\ \A i, j \in DOMAIN output_features :
              output_features[i].name = output_features[j].name => i = j
  /\ (/\ PlaceholderNames(OPS) \cap SeqSet(output_feature_names) # {}
      /\ Ran("placeholders")
      /\ error.what \notin ShapeErrors) =>
        /\ pc = "failed"
        /\ error.kind = "AssertionError"
        /\ error.what = "placeholder_output"

\* The output stage has rejected a request of two names that the graph does
\* not have.
C16_Witness ==
  /\ pc = "failed"
  /\ error.what = "missing_output"
  /\ Cardinality(RequestedMissing) = 2
  /\ output_feature_names[1] # output_feature_names[2]

====
